---- MODULE Spec2Model ----
(***************************************************************************)
(* A model of the WhatsApp coding assistant's Gemini/MCP service            *)
(* (src/services/ai_service.py) and of the helpers it relies on.            *)
(*                                                                          *)
(* Python values are modelled as tagged records:                            *)
(*   None  -> [py |-> "None"]          str   -> [py |-> "str",  s |-> ..]   *)
(*   int   -> [py |-> "int", n |-> ..] bool  -> [py |-> "bool", b |-> ..]   *)
(*   dict  -> [py |-> "dict", d |-> f] with f a function on the keys        *)
(*   list  -> [py |-> "list", l |-> q] with q a sequence                    *)
(***************************************************************************)
EXTENDS Integers, Sequences, FiniteSets, TLC

VARIABLES
    f_pc, f_arguments, f_schema, f_result,      \* _filter_unset_parameters
    c_pc, c_schema, c_result,                   \* _clean_schema
    e_pc, e_function_call, e_tool_schemas,      \* _execute_function_call
    e_reply, e_outcome,
    \* one turn: generate_response / _generate_response_async
    pc,                 \* where the turn is
    token_to_use,       \* whether a GitHub token is available
    session,            \* the MCP session: "none", "open", "closed"
    failed_at,          \* the step whose exception reached "except" of line 391
    listing,            \* what list_tools() did
    discovery,          \* what _get_mcp_tools raised and returned
    tool_schemas,       \* None, or the declarations with their original schemas
    tools,              \* the declarations given to the completion API
    samples,            \* the sampling requests made, in order
    function_calls,     \* the function calls of the first sampled reply
    replies,            \* what call_tool() did for each call processed so far
    function_results,   \* the "<name>: <result>" entries
    sent,               \* the calls sent to the provider, in order
    response_text,
    result,             \* what generate_response raised (exc) and returned (ret)
    \* truncate_message (src/utils/code_formatter.py)
    p_pc, p_text, p_max_length, p_result,
    \* the post-processing of a response (format_code_for_whatsapp, then
    \* truncate_message), applied once and applied again to its own result
    w_pc, w_text, w_max_length, w_code, w_once, w_twice,
    \* the request handlers of src/app.py
    user_sessions,      \* user id -> [github_token, chat_history]
    a_pc,               \* where each handler is in its turn
    a_message,          \* the message each handler is serving
    a_seen,             \* the chat history as generate_response received it
    a_conversation,     \* the conversation generate_response assembled for it
    a_response,         \* what generate_response returned to each handler
    a_count,            \* how many messages have come in
    a_log,              \* every history entry appended since the last clearing
    a_failures,         \* the number of turns that failed
    a_overlap,          \* how many operations on the user began during a turn
    a_last              \* the operation that finished last

f_vars == <<f_pc, f_arguments, f_schema, f_result>>
c_vars == <<c_pc, c_schema, c_result>>
e_vars == <<e_pc, e_function_call, e_tool_schemas, e_reply, e_outcome>>
t_vars == <<pc, token_to_use, session, failed_at, listing, discovery, tool_schemas, tools,
            samples, function_calls, replies, function_results, sent, response_text, result>>
p_vars == <<p_pc, p_text, p_max_length, p_result>>
w_vars == <<w_pc, w_text, w_max_length, w_code, w_once, w_twice>>
a_vars == <<user_sessions, a_pc, a_message, a_seen, a_conversation, a_response, a_count,
            a_log, a_failures, a_overlap, a_last>>
vars == <<f_vars, c_vars, e_vars, t_vars, p_vars, w_vars, a_vars>>

\* what the steps of one component leave alone
not_f_vars == <<c_vars, e_vars, t_vars, p_vars, w_vars, a_vars>>
not_c_vars == <<f_vars, e_vars, t_vars, p_vars, w_vars, a_vars>>
not_e_vars == <<f_vars, c_vars, t_vars, p_vars, w_vars, a_vars>>
not_t_vars == <<f_vars, c_vars, e_vars, p_vars, w_vars, a_vars>>
not_p_vars == <<f_vars, c_vars, e_vars, t_vars, w_vars, a_vars>>
not_w_vars == <<f_vars, c_vars, e_vars, t_vars, p_vars, a_vars>>
not_a_vars == <<f_vars, c_vars, e_vars, t_vars, p_vars, w_vars>>

---------------------------------------------------------------------------
(* Python values *)

PyNone == [py |-> "None"]
PyStr(s) == [py |-> "str", s |-> s]
PyInt(n) == [py |-> "int", n |-> n]
PyBool(b) == [py |-> "bool", b |-> b]
PyDict(d) == [py |-> "dict", d |-> d]
PyList(l) == [py |-> "list", l |-> l]

EmptyDict == [k \in {} |-> PyNone]

\* Python truthiness (bool(v)), as used by "if not schema" and "if tool_schema"
Truthy(v) ==
    CASE v.py = "None" -> FALSE
      [] v.py = "str"  -> v.s # ""
      [] v.py = "int"  -> v.n # 0
      [] v.py = "bool" -> v.b
      [] v.py = "dict" -> DOMAIN v.d # {}
      [] v.py = "list" -> Len(v.l) > 0

\* dict.get(key, default)
DictGet(dict, key, default) ==
    IF key \in DOMAIN dict THEN dict[key] ELSE default

\* "key in container" for a str key: list membership, or dict key membership
KeyIn(key, container) ==
    CASE container.py = "list" -> \E i \in 1..Len(container.l) : container.l[i] = PyStr(key)
      [] container.py = "dict" -> key \in DOMAIN container.d
      [] OTHER -> FALSE

---------------------------------------------------------------------------
(* A component that takes no part in a specification stays idle *)

FilterIdle ==
    /\ f_pc = "idle"
    /\ f_arguments = EmptyDict
    /\ f_schema = PyNone
    /\ f_result = EmptyDict

CleanIdle ==
    /\ c_pc = "idle"
    /\ c_schema = PyNone
    /\ c_result = PyNone

ExecIdle ==
    /\ e_pc = "idle"
    /\ e_function_call = PyNone
    /\ e_tool_schemas = PyNone
    /\ e_reply = PyNone
    /\ e_outcome = PyNone

TurnIdle ==
    /\ pc = "idle"
    /\ token_to_use = FALSE
    /\ session = "none"
    /\ failed_at = ""
    /\ listing = PyNone
    /\ discovery = PyNone
    /\ tool_schemas = PyNone
    /\ tools = <<>>
    /\ samples = <<>>
    /\ function_calls = <<>>
    /\ replies = <<>>
    /\ function_results = <<>>
    /\ sent = <<>>
    /\ response_text = ""
    /\ result = PyNone

PostIdle ==
    /\ p_pc = "idle"
    /\ p_text = ""
    /\ p_max_length = 0
    /\ p_result = ""

FormatIdle ==
    /\ w_pc = "idle"
    /\ w_text = ""
    /\ w_max_length = 0
    /\ w_code = ""
    /\ w_once = ""
    /\ w_twice = ""

\* the two request handlers that change a chat history
Handlers == {"webhook", "api_chat"}

AppIdle ==
    /\ user_sessions = <<>>
    /\ a_pc = [h \in Handlers |-> "off"]
    /\ a_message = [h \in Handlers |-> ""]
    /\ a_seen = [h \in Handlers |-> <<>>]
    /\ a_conversation = [h \in Handlers |-> <<>>]
    /\ a_response = [h \in Handlers |-> ""]
    /\ a_count = 0
    /\ a_log = <<>>
    /\ a_failures = 0
    /\ a_overlap = 0
    /\ a_last = [op |-> "none", response |-> ""]

---------------------------------------------------------------------------
(* GeminiService._clean_schema *)

\* the keys the sanitizer removes (ai_service.py line 111)
UnsupportedKeys == {"additionalProperties", "$schema"}

RECURSIVE _clean_schema(_)
_clean_schema(schema) ==
    IF schema.py = "dict"
    THEN PyDict([k \in {k2 \in DOMAIN schema.d : k2 \notin UnsupportedKeys}
                    |-> _clean_schema(schema.d[k])])
    ELSE IF schema.py = "list"
    THEN PyList([i \in 1..Len(schema.l) |-> _clean_schema(schema.l[i])])
    ELSE schema

---------------------------------------------------------------------------
(* GeminiService._filter_unset_parameters *)

\* the early return of lines 122-123: "not schema or not isinstance(schema, dict)"
SchemaUnusable(schema) == ~Truthy(schema) \/ schema.py # "dict"

\* the loop of lines 134-140 over a usable schema
filter_loop(arguments, schema) ==
    LET required_params == DictGet(schema.d, "required", PyList(<<>>))
        properties == DictGet(schema.d, "properties", PyDict(EmptyDict))
        kept == {key \in DOMAIN arguments :
                    \/ KeyIn(key, required_params)
                    \/ /\ KeyIn(key, properties)
                       /\ arguments[key] # PyNone
                       /\ arguments[key] # PyStr("")}
    IN  [key \in kept |-> arguments[key]]

\* mutant: required parameters are filtered like optional ones
_filter_unset_parameters_required_dropped(arguments, schema) ==
    IF SchemaUnusable(schema) THEN arguments
    ELSE LET properties == DictGet(schema.d, "properties", PyDict(EmptyDict))
             kept == {key \in DOMAIN arguments :
                         /\ KeyIn(key, properties)
                         /\ arguments[key] # PyNone
                         /\ arguments[key] # PyStr("")}
         IN  [key \in kept |-> arguments[key]]

\* mutant: every falsy optional value (0, False) is dropped, not only None and ""
_filter_unset_parameters_falsy_dropped(arguments, schema) ==
    IF SchemaUnusable(schema) THEN arguments
    ELSE LET required_params == DictGet(schema.d, "required", PyList(<<>>))
             properties == DictGet(schema.d, "properties", PyDict(EmptyDict))
             kept == {key \in DOMAIN arguments :
                         \/ KeyIn(key, required_params)
                         \/ /\ KeyIn(key, properties)
                            /\ Truthy(arguments[key])}
         IN  [key \in kept |-> arguments[key]]

\* mutant: an optional key is kept when it has a value, declared or not
_filter_unset_parameters_undeclared_kept(arguments, schema) ==
    IF SchemaUnusable(schema) THEN arguments
    ELSE LET required_params == DictGet(schema.d, "required", PyList(<<>>))
             kept == {key \in DOMAIN arguments :
                         \/ KeyIn(key, required_params)
                         \/ /\ arguments[key] # PyNone
                            /\ arguments[key] # PyStr("")}
         IN  [key \in kept |-> arguments[key]]

\* mutant: an unusable schema filters everything out (fail-closed)
_filter_unset_parameters_fail_closed(arguments, schema) ==
    IF SchemaUnusable(schema) THEN EmptyDict
    ELSE filter_loop(arguments, schema)

_filter_unset_parameters(arguments, schema) ==
    IF SchemaUnusable(schema) THEN arguments
    ELSE filter_loop(arguments, schema)


---------------------------------------------------------------------------
(* Exceptions: an operation's outcome carries the message of the exception *)
(* it raised, or NoExc                                                      *)

NoExc == "<none>"

---------------------------------------------------------------------------
(* GeminiService._get_mcp_tools *)

\* lines 151-160: one tool_info per listed tool
tool_info(tool) ==
    [name |-> tool.name,
     description |-> tool.description,
     parameters |-> _clean_schema(tool.inputSchema),
     original_schema |-> tool.inputSchema]

\* mutant: a failure of list_tools is not caught
_get_mcp_tools_uncaught(listed) ==
    IF listed.exc # NoExc
    THEN [exc |-> listed.exc, ret |-> <<>>]
    ELSE [exc |-> NoExc, ret |-> [i \in 1..Len(listed.tools) |-> tool_info(listed.tools[i])]]

\* listed is what mcp_session.list_tools() does: it raises (exc) or returns
\* tools. The result is what the call raises to its caller (exc) and returns.
_get_mcp_tools(listed) ==
    IF listed.exc # NoExc
    THEN [exc |-> NoExc, ret |-> <<>>]
    ELSE [exc |-> NoExc, ret |-> [i \in 1..Len(listed.tools) |-> tool_info(listed.tools[i])]]

\* lines 252-253, 279-281: schemas is None unless declarations were found
tool_schemas_of(declarations) ==
    IF Len(declarations) > 0 THEN PyList(declarations) ELSE PyNone

---------------------------------------------------------------------------
(* GeminiService._execute_function_call *)

\* json.loads on the texts a provider replies with
JsonText == "{\"ok\": true}"
PlainText == "created"
JsonDecodes(text) == text = JsonText
\* json.dumps(json.loads(text), indent=2)
JsonPretty(text) == IF text = JsonText THEN "{\n  \"ok\": true\n}" ELSE text

NoContentText == "Function executed successfully but returned no content."
ErrorPrefix == "Error executing function: "

\* mutant: the loop has no break, the last declaration with that name wins
find_tool_schema_last(schemas, name) ==
    LET matches == {i \in 1..Len(schemas.l) : schemas.l[i].name = name}
    IN  IF matches = {} THEN PyNone
        ELSE schemas.l[CHOOSE i \in matches : \A j \in matches : i >= j].original_schema

\* lines 178-184: the original schema of the first declaration with that name
find_tool_schema(schemas, name) ==
    LET matches == {i \in 1..Len(schemas.l) : schemas.l[i].name = name}
    IN  IF matches = {} THEN PyNone
        ELSE schemas.l[CHOOSE i \in matches : \A j \in matches : i <= j].original_schema

\* lines 177-188
filtered_arguments(original_args, name, schemas) ==
    IF Truthy(schemas)
    THEN LET tool_schema == find_tool_schema(schemas, name)
         IN  IF Truthy(tool_schema)
             THEN _filter_unset_parameters(original_args, tool_schema)
             ELSE original_args
    ELSE original_args

\* lines 199-208: the text made of the provider's result
parse_result(reply) ==
    IF Len(reply.content) > 0
    THEN IF ~reply.content[1].has_text
         THEN [exc |-> "'ImageContent' object has no attribute 'text'", ret |-> ""]
         ELSE IF JsonDecodes(reply.content[1].text)
         THEN [exc |-> NoExc, ret |-> JsonPretty(reply.content[1].text)]
         ELSE [exc |-> NoExc, ret |-> reply.content[1].text]
    ELSE [exc |-> NoExc, ret |-> NoContentText]

\* lines 170-208, the body of the try: exc is the exception it raises, sent
\* the calls it made on the provider session
execute_body(function_call, reply, schemas) ==
    IF function_call.args.py # "dict"
    THEN \* dict(None) raises TypeError
         [exc |-> "'NoneType' object is not iterable", ret |-> "", sent |-> <<>>]
    ELSE LET filtered_args ==
                filtered_arguments(function_call.args.d, function_call.name, schemas)
             dispatched == <<[name |-> function_call.name, arguments |-> filtered_args]>>
         IN  IF reply.exc # NoExc
             THEN [exc |-> reply.exc, ret |-> "", sent |-> dispatched]
             ELSE [exc |-> parse_result(reply).exc,
                   ret |-> parse_result(reply).ret,
                   sent |-> dispatched]

\* mutant: only a JSON decoding error is handled, anything else propagates
_execute_function_call_uncaught(function_call, reply, schemas) ==
    LET body == execute_body(function_call, reply, schemas)
    IN  [exc |-> body.exc, ret |-> body.ret, sent |-> body.sent]

\* reply is what mcp_session.call_tool() does: it raises (exc) or returns a
\* result with content. The outcome is what the call raises to its caller
\* (exc), the text it returns (ret) and the calls it sent to the provider.
_execute_function_call(function_call, reply, schemas) ==
    LET body == execute_body(function_call, reply, schemas)
    IN  IF body.exc # NoExc
        THEN [exc |-> NoExc, ret |-> ErrorPrefix \o body.exc, sent |-> body.sent]
        ELSE [exc |-> NoExc, ret |-> body.ret, sent |-> body.sent]

---------------------------------------------------------------------------
(* truncate_message (src/utils/code_formatter.py) *)

\* offsets are counted from 0, as Python counts them

\* text[:end], a negative end being counted from the end of the text
SliceTo(text, end) ==
    IF end >= 0
    THEN SubSeq(text, 1, IF end < Len(text) THEN end ELSE Len(text))
    ELSE SubSeq(text, 1, IF Len(text) + end > 0 THEN Len(text) + end ELSE 0)

\* the highest offset not above from at which sub occurs in text, or -1
rfind_from(text, sub, from) ==
    LET hits == {i \in 0..from : SubSeq(text, i + 1, i + Len(sub)) = sub}
    IN  IF hits = {} THEN -1 ELSE CHOOSE i \in hits : \A j \in hits : i >= j

\* text.rfind(sub)
rfind(text, sub) == rfind_from(text, sub, Len(text) - Len(sub))

\* the lowest offset not below from at which sub occurs in text, or -1
find_from(text, sub, from) ==
    LET hits == {i \in from..(Len(text) - Len(sub)) : SubSeq(text, i + 1, i + Len(sub)) = sub}
    IN  IF hits = {} THEN -1 ELSE CHOOSE i \in hits : \A j \in hits : i <= j

\* line 50: the marker appended to a truncated text
TruncationMarker == "..."

ParagraphBreak == "\n\n"

\* line 34: the default of max_length, which is also what lines 385 and 432 of
\* ai_service.py pass
DefaultMaxLength == 1500

\* mutant: the first paragraph break is looked for instead of the last
truncate_message_first_break(text, max_length) ==
    IF Len(text) <= max_length THEN text
    ELSE LET truncated == SliceTo(text, max_length - 3)
             last_newline == find_from(truncated, ParagraphBreak, 0)
         IN  IF 5 * last_newline > 4 * max_length
             THEN SliceTo(truncated, last_newline) \o TruncationMarker
             ELSE truncated \o TruncationMarker

\* lines 34-50; "last_newline > max_length * 0.8" (line 46) is compared in
\* integers, 5 * last_newline > 4 * max_length
truncate_message(text, max_length) ==
    IF Len(text) <= max_length THEN text
    ELSE LET truncated == SliceTo(text, max_length - 3)
             last_newline == rfind(truncated, ParagraphBreak)
         IN  IF 5 * last_newline > 4 * max_length
             THEN SliceTo(truncated, last_newline) \o TruncationMarker
             ELSE truncated \o TruncationMarker

---------------------------------------------------------------------------
(* format_code_for_whatsapp (src/utils/code_formatter.py) *)

\* the backquote character is written ^ (a string of this notation cannot hold
\* a backquote); no text holds ^ otherwise
Backquote == "^"
Fence == Backquote \o Backquote \o Backquote

\* the characters \w matches, among those the texts are made of
WordChars ==
    {SubSeq("abcdefghijklmnopqrstuvwxyzABCDEFGHIJKLMNOPQRSTUVWXYZ0123456789_", i, i) :
        i \in 1..63}

Lowercase == "abcdefghijklmnopqrstuvwxyz"
Uppercase == "ABCDEFGHIJKLMNOPQRSTUVWXYZ"

\* str.upper()
RECURSIVE Upper(_)
Upper(text) ==
    IF text = "" THEN ""
    ELSE LET c == SubSeq(text, 1, 1)
             at == {i \in 1..26 : SubSeq(Lowercase, i, i) = c}
         IN  (IF at = {} THEN c ELSE LET i == CHOOSE j \in at : TRUE
                                    IN SubSeq(Uppercase, i, i))
                 \o Upper(SubSeq(text, 2, Len(text)))

\* text[from:to]
Slice(text, from, to) == SubSeq(text, from + 1, to)

\* whether sub occurs in text at offset at
OccursAt(text, sub, at) ==
    /\ at + Len(sub) <= Len(text)
    /\ SubSeq(text, at + 1, at + Len(sub)) = sub

\* the offset after the longest run of \w characters that starts at offset at
RECURSIVE WordRunEnd(_, _)
WordRunEnd(text, at) ==
    IF at < Len(text) /\ SubSeq(text, at + 1, at + 1) \in WordChars
    THEN WordRunEnd(text, at + 1)
    ELSE at

\* line 11: r"^^^(\w+)\n([\s\S]*?)\n^^^" tried at offset at. \w+ takes the whole
\* run of word characters (the newline that must follow is not one), the lazy
\* group stops at the first "\n^^^" after that newline
match_language_block(text, at) ==
    IF ~OccursAt(text, Fence, at) THEN [ok |-> FALSE]
    ELSE LET w == WordRunEnd(text, at + 3)
         IN  IF w = at + 3 \/ ~OccursAt(text, "\n", w) THEN [ok |-> FALSE]
             ELSE LET close == find_from(text, "\n" \o Fence, w + 1)
                  IN  IF close = -1 THEN [ok |-> FALSE]
                      ELSE [ok |-> TRUE, lang |-> Slice(text, at + 3, w),
                            code |-> Slice(text, w + 1, close), end |-> close + 4]

\* line 21: r"^^^\n([\s\S]*?)\n^^^" tried at offset at
match_generic_block(text, at) ==
    IF ~OccursAt(text, Fence \o "\n", at) THEN [ok |-> FALSE]
    ELSE LET close == find_from(text, "\n" \o Fence, at + 4)
         IN  IF close = -1 THEN [ok |-> FALSE]
             ELSE [ok |-> TRUE, lang |-> "",
                   code |-> Slice(text, at + 4, close), end |-> close + 4]

\* lines 12 and 22: re.findall, the matches from left to right, each search
\* going on where the match before ended (a match starts at a fence: the
\* offsets without one are passed over)
RECURSIVE findall_language_blocks(_, _)
findall_language_blocks(text, at) ==
    LET fence == find_from(text, Fence, at)
    IN  IF fence = -1 THEN <<>>
        ELSE LET found == match_language_block(text, fence)
             IN  IF found.ok
                 THEN <<found>> \o findall_language_blocks(text, found.end)
                 ELSE findall_language_blocks(text, fence + 1)

RECURSIVE findall_generic_blocks(_, _)
findall_generic_blocks(text, at) ==
    LET fence == find_from(text, Fence, at)
    IN  IF fence = -1 THEN <<>>
        ELSE LET found == match_generic_block(text, fence)
             IN  IF found.ok
                 THEN <<found>> \o findall_generic_blocks(text, found.end)
                 ELSE findall_generic_blocks(text, fence + 1)

\* str.replace(old, new) for a non-empty old: every occurrence, left to right
RECURSIVE replace(_, _, _)
replace(text, old, new) ==
    LET at == find_from(text, old, 0)
    IN  IF at = -1 THEN text
        ELSE Slice(text, 0, at) \o new
                \o replace(Slice(text, at + Len(old), Len(text)), old, new)

\* lines 16 and 26: the labelled block
language_replacement(lang, code) ==
    "*" \o Upper(lang) \o " CODE:*\n" \o Fence \o "\n" \o code \o "\n" \o Fence

generic_replacement(code) ==
    "*CODE:*\n" \o Fence \o "\n" \o code \o "\n" \o Fence

\* lines 14-17: one replace per match, on the text as it is by then
RECURSIVE replace_language_blocks(_, _)
replace_language_blocks(text, matches) ==
    IF matches = <<>> THEN text
    ELSE LET lang == matches[1].lang
             code == matches[1].code
         IN  replace_language_blocks(
                 replace(text, Fence \o lang \o "\n" \o code \o "\n" \o Fence,
                         language_replacement(lang, code)),
                 Tail(matches))

\* lines 24-27
RECURSIVE replace_generic_blocks(_, _)
replace_generic_blocks(text, matches) ==
    IF matches = <<>> THEN text
    ELSE LET code == matches[1].code
         IN  replace_generic_blocks(
                 replace(text, Fence \o "\n" \o code \o "\n" \o Fence,
                         generic_replacement(code)),
                 Tail(matches))

\* lines 4-32: the generic blocks are looked for in the text the first loop
\* has rewritten
format_code_for_whatsapp(text) ==
    LET labelled == replace_language_blocks(text, findall_language_blocks(text, 0))
    IN  replace_generic_blocks(labelled, findall_generic_blocks(labelled, 0))

\* ai_service.py lines 382-385 and 429-432: the post-processing of a response
post_process(text, max_length) ==
    truncate_message(format_code_for_whatsapp(text), max_length)

---------------------------------------------------------------------------
(* The conversation of a turn (ai_service.py) and the chat history (app.py) *)

\* ai_service.py lines 92-93: a turn of the conversation given to the completion API
_make_content(role, text) == [role |-> role, text |-> text]

\* mutant: every entry of the history is taken, the last one included
_format_chat_history_whole(chat_history) ==
    [i \in 1..Len(chat_history) |->
        _make_content(IF chat_history[i].role = "user" THEN "user" ELSE "model",
                      chat_history[i].content)]

\* ai_service.py lines 95-103: chat_history[:-1], every role but "user" as "model"
_format_chat_history(chat_history) ==
    IF chat_history = <<>> THEN <<>>
    ELSE [i \in 1..(Len(chat_history) - 1) |->
            _make_content(IF chat_history[i].role = "user" THEN "user" ELSE "model",
                          chat_history[i].content)]

\* self.system_prompt (ai_service.py lines 26-90), shortened
SystemPrompt == "You are an AI coding assistant."

AcknowledgementText ==
    "I understand. I'm your AI coding assistant ready to help you build apps and websites. How can I assist you today?"

\* ai_service.py lines 236-249: the conversation of a turn
conversation_messages(user_message, chat_history, enhanced_system_prompt) ==
    <<_make_content("user", enhanced_system_prompt),
      _make_content("model", AcknowledgementText)>>
        \o (IF chat_history # <<>> THEN _format_chat_history(chat_history) ELSE <<>>)
        \o <<_make_content("user", user_message)>>

\* app.py lines 74 and 126: the number of history entries kept
HistoryLimit == 20

\* chat_history[-n:]
LastEntries(chat_history, n) ==
    IF Len(chat_history) <= n THEN chat_history
    ELSE SubSeq(chat_history, Len(chat_history) - n + 1, Len(chat_history))

\* mutant: the oldest entries are kept
limit_chat_history_oldest(chat_history) ==
    IF Len(chat_history) <= HistoryLimit THEN chat_history
    ELSE SubSeq(chat_history, 1, HistoryLimit)

\* mutant: the history is cut to one entry less
limit_chat_history_short(chat_history) == LastEntries(chat_history, HistoryLimit - 1)

\* app.py lines 75 and 127: chat_history[-20:]
limit_chat_history(chat_history) == LastEntries(chat_history, HistoryLimit)

\* app.py line 33: os.environ.get('GITHUB_TOKEN')
EnvGithubToken == "ghp_token"

\* app.py lines 26-35: ensure_user_session
ensure_user_session(sessions, user_id) ==
    IF user_id \in DOMAIN sessions THEN sessions
    ELSE [u \in DOMAIN sessions \cup {user_id} |->
            IF u = user_id THEN [github_token |-> EnvGithubToken, chat_history |-> <<>>]
            ELSE sessions[u]]

\* user_sessions[user_id]["chat_history"].append(entry)
append_to_history(sessions, user_id, entry) ==
    [sessions EXCEPT ![user_id].chat_history = Append(@, entry)]

---------------------------------------------------------------------------
(* GeminiService.generate_response and _generate_response_async *)

SorryText == "Sorry, I encountered an error. Please try again."
ApologyText ==
    "I apologize, but I couldn't generate a response. Please try rephrasing your question."

Whitespace == {" ", "\n", "\t"}

\* str.strip()
RECURSIVE Strip(_)
Strip(text) ==
    IF Len(text) = 0 THEN text
    ELSE IF SubSeq(text, 1, 1) \in Whitespace THEN Strip(SubSeq(text, 2, Len(text)))
    ELSE IF SubSeq(text, Len(text), Len(text)) \in Whitespace
    THEN Strip(SubSeq(text, 1, Len(text) - 1))
    ELSE text

\* "\n".join(lines)
RECURSIVE JoinLines(_)
JoinLines(lines) ==
    IF Len(lines) = 0 THEN ""
    ELSE IF Len(lines) = 1 THEN lines[1]
    ELSE lines[1] \o "\n" \o JoinLines(Tail(lines))

\* the count of function calls as f"{len(function_calls)}" prints it
CountText(n) ==
    CASE n = 0 -> "0" [] n = 1 -> "1" [] n = 2 -> "2" [] n = 3 -> "3" [] OTHER -> "4"

\* a text the turn returns: formatted tells whether it went through
\* format_code_for_whatsapp and truncate_message(max_length=1500) (lines
\* 381-385 and 428-432)
PostProcessed(text) == [text |-> post_process(text, DefaultMaxLength), formatted |-> TRUE]
Unprocessed(text) == [text |-> text, formatted |-> FALSE]

\* line 341
function_result_entry(function_call, function_result) ==
    function_call.name \o ": " \o function_result

SummaryText(results) ==
    "All functions executed successfully: " \o JoinLines(results)

\* results[n], ..., results[1]
RECURSIVE Reversed(_)
Reversed(results) ==
    IF Len(results) = 0 THEN <<>>
    ELSE Append(Reversed(Tail(results)), Head(results))

\* mutant: the results are fed back last first
follow_up_turns_reversed(calls, results) ==
    <<[role |-> "model",
       text |-> "I'll execute " \o CountText(Len(calls)) \o " function(s) for you."],
      [role |-> "user", text |-> "Function results: " \o JoinLines(Reversed(results))]>>

\* lines 347-350: the two synthetic turns appended for the follow-up sample
follow_up_turns(calls, results) ==
    <<[role |-> "model",
       text |-> "I'll execute " \o CountText(Len(calls)) \o " function(s) for you."],
      [role |-> "user", text |-> "Function results: " \o JoinLines(results)]>>

\* lines 362-368: the text after the follow-up sample; reply is what
\* generate_content did (exc), with the text of its response
follow_up_text(reply, results) ==
    IF reply.exc # NoExc THEN SummaryText(results)
    ELSE IF reply.text # "" THEN Strip(reply.text)
    ELSE SummaryText(results)

\* lines 370-372
function_error_text(calls, e) ==
    "I attempted to execute " \o CountText(Len(calls))
        \o " function(s), but encountered an error: " \o e

\* mutant: the handler of line 391 gives up instead of falling back
mcp_operations_except_raises(e) ==
    [exc |-> e, tools |-> <<>>, tool_schemas |-> PyNone]

\* lines 391-395: "except Exception as e" around the MCP block falls back to a
\* response without MCP tools
mcp_operations_except(e) ==
    [exc |-> NoExc, tools |-> <<>>, tool_schemas |-> PyNone]

\* lines 438-441: what _generate_response_async returns for an exception e
\* raised anywhere in its body
_generate_response_async_except(e) ==
    [exc |-> NoExc,
     ret |-> Unprocessed("I encountered an error while processing your request: " \o e
                            \o ". Please try again with a simpler request.")]

\* mutant: generate_response lets the exception through
generate_response_uncaught(inner) ==
    inner

\* lines 218-231: inner is what asyncio.run(_generate_response_async(..)) raised
\* (exc) and returned (ret)
generate_response(inner) ==
    IF inner.exc # NoExc
    THEN [exc |-> NoExc, ret |-> Unprocessed(SorryText)]
    ELSE inner

---------------------------------------------------------------------------
(* Inputs of the Argument Filter *)

\* at most this many arguments are supplied in one function call
MaxArgs == 3

\* "owner", "ref": possibly required; "path": optional; "extra": never declared
ArgKeys == {"owner", "ref", "path", "extra"}

\* None, "", a real string, and the falsy non-string values 0 and False
ArgValues == {PyNone, PyStr(""), PyStr("x"), PyInt(0), PyBool(FALSE)}

ArgumentMappings ==
    UNION {[S -> ArgValues] : S \in {T \in SUBSET ArgKeys : Cardinality(T) <= MaxArgs}}

PropertySchema == PyDict([type |-> PyStr("string")])

RequiredLists ==
    {PyList(<<>>), PyList(<<PyStr("owner")>>), PyList(<<PyStr("owner"), PyStr("ref")>>)}

PropertiesMappings ==
    {PyDict([k \in S |-> PropertySchema]) :
        S \in {{}, {"path"}, {"ref", "path"}, {"owner", "ref", "path"}}}

\* a dict built from optional entries
Entries(type, required, properties) ==
    [k \in {k2 \in {"type", "required", "properties"} :
                \/ k2 = "type" /\ type
                \/ k2 = "required" /\ required # PyNone
                \/ k2 = "properties" /\ properties # PyNone}
        |-> CASE k = "type" -> PyStr("object")
              [] k = "required" -> required
              [] k = "properties" -> properties]

\* schemas that are mappings: every combination of an optional "type", an
\* optional "required" list and an optional "properties" mapping ({} included)
MappingSchemas ==
    {PyDict(Entries(t, r, p)) :
        t \in BOOLEAN, r \in RequiredLists \cup {PyNone}, p \in PropertiesMappings \cup {PyNone}}

\* absent or malformed schemas: None, {}, a string, a list
UnusableSchemas == {PyNone, PyDict(EmptyDict), PyStr("object"), PyList(<<PyStr("owner")>>)}

FilterSchemas == MappingSchemas \cup UnusableSchemas

HasRequiredAndProperties(schema) ==
    /\ schema.py = "dict"
    /\ "required" \in DOMAIN schema.d
    /\ "properties" \in DOMAIN schema.d

---------------------------------------------------------------------------
(* Specification of the Argument Filter: one call on arbitrary inputs *)

FilterInit ==
    /\ f_pc = "call"
    /\ f_arguments \in ArgumentMappings
    /\ f_schema \in FilterSchemas
    /\ f_result = EmptyDict

FilterCall ==
    /\ f_pc = "call"
    /\ f_result' = _filter_unset_parameters(f_arguments, f_schema)
    /\ f_pc' = "done"
    /\ UNCHANGED <<f_arguments, f_schema, not_f_vars>>

SpecFilterInit == FilterInit /\ CleanIdle /\ ExecIdle /\ TurnIdle /\ PostIdle /\ FormatIdle /\ AppIdle
SpecFilterNext == FilterCall
SpecFilter == SpecFilterInit /\ [][SpecFilterNext]_vars

\* with a schema that has a 'required' list and a 'properties' mapping,
\* every supplied required key is kept with its value (None and "" included),
\* and every declared optional key whose value is None or "" is dropped.
C1_RequiredKeptOptionalUnsetDropped ==
    (f_pc = "done" /\ HasRequiredAndProperties(f_schema)) =>
        \A key \in DOMAIN f_arguments :
            /\ KeyIn(key, f_schema.d["required"]) =>
                    key \in DOMAIN f_result /\ f_result[key] = f_arguments[key]
            /\ ( /\ ~KeyIn(key, f_schema.d["required"])
                 /\ KeyIn(key, f_schema.d["properties"])
                 /\ f_arguments[key] \in {PyNone, PyStr("")} ) =>
                    key \notin DOMAIN f_result

\* the scenario of C1: {path: "", ref: None, owner: "x"}, required [owner, ref]
C1_ScenarioInput ==
    /\ f_arguments = [path |-> PyStr(""), ref |-> PyNone, owner |-> PyStr("x")]
    /\ HasRequiredAndProperties(f_schema)
    /\ f_schema.d["required"] = PyList(<<PyStr("owner"), PyStr("ref")>>)
    /\ "path" \in DOMAIN f_schema.d["properties"].d

\* the scenario yields exactly {owner: "x", ref: None}
C1_Scenario ==
    (f_pc = "done" /\ C1_ScenarioInput) =>
        f_result = [owner |-> PyStr("x"), ref |-> PyNone]

\* C1: required keys are kept whatever their value, unset optional keys are
\* dropped, and the scenario {path: "", ref: None, owner: "x"} with required
\* [owner, ref] yields exactly {owner: "x", ref: None}.
C1_Theorem == C1_RequiredKeptOptionalUnsetDropped /\ C1_Scenario

C1_Witness ==
    /\ f_pc = "done"
    /\ C1_ScenarioInput
    /\ f_result = [owner |-> PyStr("x"), ref |-> PyNone]

\* C2: with a schema that is a usable mapping, a non-required key is in the
\* output exactly when it is declared in 'properties' and its value is neither
\* None nor "" (kept unchanged, 0 and False included); a key neither required
\* nor declared is dropped whatever its value.
C2_OptionalKeptIffDeclaredAndSet ==
    (f_pc = "done" /\ ~SchemaUnusable(f_schema)) =>
        LET required_params == DictGet(f_schema.d, "required", PyList(<<>>))
            properties == DictGet(f_schema.d, "properties", PyDict(EmptyDict))
        IN  \A key \in ArgKeys :
                ~KeyIn(key, required_params) =>
                    /\ key \in DOMAIN f_result <=>
                            /\ key \in DOMAIN f_arguments
                            /\ key \in DOMAIN properties.d
                            /\ f_arguments[key] \notin {PyNone, PyStr("")}
                    /\ key \in DOMAIN f_result => f_result[key] = f_arguments[key]

C2_Witness ==
    /\ f_pc = "done"
    /\ ~SchemaUnusable(f_schema)
    /\ "path" \in DOMAIN f_arguments /\ f_arguments["path"] = PyInt(0)
    /\ "path" \in DOMAIN f_result /\ f_result["path"] = PyInt(0)
    /\ "ref" \in DOMAIN f_arguments /\ f_arguments["ref"] = PyBool(FALSE)
    /\ ~KeyIn("ref", DictGet(f_schema.d, "required", PyList(<<>>)))
    /\ "ref" \in DOMAIN f_result
    /\ "extra" \in DOMAIN f_arguments /\ f_arguments["extra"] = PyStr("x")
    /\ "extra" \notin DOMAIN f_result


---------------------------------------------------------------------------
(* Specification of the Schema Sanitizer: a provider's inputSchema is built *)
(* up step by step, then sanitized                                          *)

\* nesting depth of the schemas built
MaxDepth == 2
\* entries per mapping and items per array
MaxWidth == 2

SchemaKeys == {"type", "properties", "items", "additionalProperties", "$schema", "const"}
LeafSchemas == {PyStr("v"), PyNone}

RECURSIVE Depth(_)
Depth(schema) ==
    IF schema.py = "dict"
    THEN 1 + (LET ds == {Depth(schema.d[k]) : k \in DOMAIN schema.d}
              IN  IF ds = {} THEN 0 ELSE CHOOSE m \in ds : \A n \in ds : n <= m)
    ELSE IF schema.py = "list"
    THEN 1 + (LET ds == {Depth(schema.l[i]) : i \in 1..Len(schema.l)}
              IN  IF ds = {} THEN 0 ELSE CHOOSE m \in ds : \A n \in ds : n <= m)
    ELSE 0

CleanInit ==
    /\ c_pc = "build"
    /\ c_schema \in LeafSchemas \cup {PyDict(EmptyDict), PyList(<<>>)}
    /\ c_result = PyNone

\* the schema becomes the value of key k of a new mapping
WrapInDict ==
    /\ c_pc = "build"
    /\ Depth(c_schema) < MaxDepth
    /\ \E k \in SchemaKeys : c_schema' = PyDict([x \in {k} |-> c_schema])
    /\ UNCHANGED <<c_pc, c_result, not_c_vars>>

\* a mapping gets one more entry
AddEntry ==
    /\ c_pc = "build"
    /\ c_schema.py = "dict"
    /\ Cardinality(DOMAIN c_schema.d) < MaxWidth
    /\ \E k \in SchemaKeys \ DOMAIN c_schema.d :
            c_schema' = PyDict([x \in DOMAIN c_schema.d \cup {k} |->
                                    IF x = k THEN PyStr("v") ELSE c_schema.d[x]])
    /\ UNCHANGED <<c_pc, c_result, not_c_vars>>

\* the schema becomes the only item of a new array
WrapInList ==
    /\ c_pc = "build"
    /\ Depth(c_schema) < MaxDepth
    /\ c_schema' = PyList(<<c_schema>>)
    /\ UNCHANGED <<c_pc, c_result, not_c_vars>>

\* an array gets one more item
AppendItem ==
    /\ c_pc = "build"
    /\ c_schema.py = "list"
    /\ Len(c_schema.l) < MaxWidth
    /\ \E v \in {PyStr("w"), PyDict([const |-> PyStr("v")])} :
            c_schema' = PyList(Append(c_schema.l, v))
    /\ UNCHANGED <<c_pc, c_result, not_c_vars>>

CleanCall ==
    /\ c_pc = "build"
    /\ c_result' = _clean_schema(c_schema)
    /\ c_pc' = "done"
    /\ UNCHANGED <<c_schema, not_c_vars>>

SpecCleanInit == CleanInit /\ FilterIdle /\ ExecIdle /\ TurnIdle /\ PostIdle /\ FormatIdle /\ AppIdle
SpecCleanNext ==
    \/ WrapInDict
    \/ AddEntry
    \/ WrapInList
    \/ AppendItem
    \/ CleanCall
SpecClean == SpecCleanInit /\ [][SpecCleanNext]_vars

\* the keys C4 names as unsupported by the completion API
ClaimedUnsupportedKeys == {"additionalProperties", "$schema", "const"}

RECURSIVE HasKeyIn(_, _)
HasKeyIn(schema, keys) ==
    IF schema.py = "dict"
    THEN \/ DOMAIN schema.d \cap keys # {}
         \/ \E k \in DOMAIN schema.d : HasKeyIn(schema.d[k], keys)
    ELSE IF schema.py = "list"
    THEN \E i \in 1..Len(schema.l) : HasKeyIn(schema.l[i], keys)
    ELSE FALSE

\* out is in with the keys removed at every depth and everything else kept:
\* the same supported keys, arrays of the same length and order, equal leaves
RECURSIVE SanitizedCopy(_, _, _)
SanitizedCopy(in, out, keys) ==
    IF in.py = "dict"
    THEN /\ out.py = "dict"
         /\ DOMAIN out.d = DOMAIN in.d \ keys
         /\ \A k \in DOMAIN out.d : SanitizedCopy(in.d[k], out.d[k], keys)
    ELSE IF in.py = "list"
    THEN /\ out.py = "list"
         /\ Len(out.l) = Len(in.l)
         /\ \A i \in 1..Len(in.l) : SanitizedCopy(in.l[i], out.l[i], keys)
    ELSE out = in

\* C4: the sanitized schema holds no additionalProperties, $schema or const key
\* at any depth, and keeps every supported key, array length and order.
C4_NoUnsupportedKeyAtAnyDepth ==
    c_pc = "done" =>
        /\ ~HasKeyIn(c_result, ClaimedUnsupportedKeys)
        /\ SanitizedCopy(c_schema, c_result, ClaimedUnsupportedKeys)


---------------------------------------------------------------------------
(* Specification of one tool call: tools are discovered from a provider's   *)
(* listing, the model emits one function call, the provider answers          *)

\* tools in one provider listing
MaxTools == 2

ToolNames == {"getFile", "deploy"}
\* a name the provider never declares
UnknownName == "ghost"

OwnerRequired ==
    PyDict(Entries(TRUE, PyList(<<PyStr("owner")>>),
                   PyDict([k \in {"owner", "path"} |-> PropertySchema])))
RefRequired ==
    PyDict(Entries(TRUE, PyList(<<PyStr("ref")>>),
                   PyDict([k \in {"ref"} |-> PropertySchema])))

InputSchemas == UnusableSchemas \cup {OwnerRequired, RefRequired}

ListedTools ==
    [name : ToolNames, description : {"a tool"}, inputSchema : InputSchemas]

ToolLists == UNION {[1..n -> ListedTools] : n \in 0..MaxTools}

\* what list_tools() can do
Listings ==
    {[exc |-> NoExc, tools |-> ts] : ts \in ToolLists}
        \cup {[exc |-> "Connection closed", tools |-> <<>>]}

CallArguments ==
    {PyNone,
     PyDict(EmptyDict),
     PyDict([owner |-> PyStr("x"), path |-> PyStr("")]),
     PyDict([path |-> PyStr(""), ref |-> PyNone, owner |-> PyStr("x")])}

FunctionCalls == [name : ToolNames \cup {UnknownName}, args : CallArguments]

\* what call_tool() can do: raise, or return a result
Replies ==
    {[exc |-> "tool failed", content |-> <<>>],
     [exc |-> NoExc, content |-> <<>>],
     [exc |-> NoExc, content |-> <<[has_text |-> TRUE, text |-> JsonText]>>],
     [exc |-> NoExc, content |-> <<[has_text |-> TRUE, text |-> PlainText]>>],
     [exc |-> NoExc, content |-> <<[has_text |-> FALSE, text |-> ""]>>]}

ExecInit ==
    /\ e_pc = "call"
    /\ \E listed \in Listings :
            e_tool_schemas = tool_schemas_of(_get_mcp_tools(listed).ret)
    /\ e_function_call \in FunctionCalls
    /\ e_reply \in Replies
    /\ e_outcome = PyNone

ExecCall ==
    /\ e_pc = "call"
    /\ e_outcome' = _execute_function_call(e_function_call, e_reply, e_tool_schemas)
    /\ e_pc' = "done"
    /\ UNCHANGED <<e_function_call, e_tool_schemas, e_reply, not_e_vars>>

SpecExecInit == ExecInit /\ FilterIdle /\ CleanIdle /\ TurnIdle /\ PostIdle /\ FormatIdle /\ AppIdle
SpecExecNext == ExecCall
SpecExec == SpecExecInit /\ [][SpecExecNext]_vars

\* the original schema the call is matched with (None when there is none)
MatchedSchema ==
    IF Truthy(e_tool_schemas)
    THEN find_tool_schema(e_tool_schemas, e_function_call.name)
    ELSE PyNone

NameDeclared ==
    /\ Truthy(e_tool_schemas)
    /\ \E i \in 1..Len(e_tool_schemas.l) : e_tool_schemas.l[i].name = e_function_call.name

\* C3: when the tool's original schema is absent or malformed (None, empty,
\* not a mapping), the filter returns the arguments unchanged and the call is
\* dispatched with every argument the model supplied.
C3_FailOpen ==
    (e_pc = "done" /\ e_function_call.args.py = "dict" /\ SchemaUnusable(MatchedSchema)) =>
        /\ _filter_unset_parameters(e_function_call.args.d, MatchedSchema)
                = e_function_call.args.d
        /\ e_outcome.sent =
                <<[name |-> e_function_call.name, arguments |-> e_function_call.args.d]>>

C3_Witness ==
    /\ e_pc = "done"
    /\ NameDeclared
    /\ MatchedSchema = PyStr("object")
    /\ e_function_call.args = PyDict([owner |-> PyStr("x"), path |-> PyStr("")])
    /\ e_outcome.sent =
            <<[name |-> e_function_call.name, arguments |-> e_function_call.args.d]>>

\* C6: _execute_function_call never raises: when argument handling, dispatch
\* or reply parsing fails it returns a text that describes the error.
C6_NeverRaises ==
    e_pc = "done" =>
        /\ e_outcome.exc = NoExc
        /\ execute_body(e_function_call, e_reply, e_tool_schemas).exc # NoExc =>
                e_outcome.ret =
                    ErrorPrefix \o execute_body(e_function_call, e_reply, e_tool_schemas).exc

C6_Witness ==
    /\ e_pc = "done"
    /\ e_reply.exc = "tool failed"
    /\ e_function_call.args.py = "dict"
    /\ e_outcome.exc = NoExc
    /\ e_outcome.ret = "Error executing function: tool failed"

\* the declarations that carry the name of the call, by position
DeclarationsOfCall ==
    IF Truthy(e_tool_schemas)
    THEN {i \in 1..Len(e_tool_schemas.l) : e_tool_schemas.l[i].name = e_function_call.name}
    ELSE {}

\* C11: when several declarations carry the name of the call, the call is
\* resolved to the first-registered one: its original schema filters the
\* arguments that are dispatched, whatever the later declarations say.
C11_FirstDeclarationWins ==
    (e_pc = "done" /\ DeclarationsOfCall # {} /\ e_function_call.args.py = "dict") =>
        LET first == CHOOSE i \in DeclarationsOfCall : \A j \in DeclarationsOfCall : i <= j
            schema == e_tool_schemas.l[first].original_schema
        IN  e_outcome.sent =
                <<[name |-> e_function_call.name,
                   arguments |-> IF Truthy(schema)
                                 THEN _filter_unset_parameters(e_function_call.args.d, schema)
                                 ELSE e_function_call.args.d]>>

\* two declarations named deploy with different schemas: the first requires
\* owner, the second requires ref
C11_Witness ==
    /\ e_pc = "done"
    /\ Cardinality(DeclarationsOfCall) = 2
    /\ e_function_call.name = "deploy"
    /\ e_tool_schemas.l[1].original_schema = OwnerRequired
    /\ e_tool_schemas.l[2].original_schema = RefRequired
    /\ e_function_call.args =
            PyDict([path |-> PyStr(""), ref |-> PyNone, owner |-> PyStr("x")])
    /\ e_outcome.sent = <<[name |-> "deploy", arguments |-> [owner |-> PyStr("x")]]>>

\* C10: a function call whose name matches no discovered declaration is not
\* dispatched to the provider; its result is an explicit unknown-tool error.
C10_UnknownToolNotDispatched ==
    (e_pc = "done" /\ Truthy(e_tool_schemas) /\ ~NameDeclared) =>
        /\ e_outcome.sent = <<>>
        /\ e_outcome.ret \notin {JsonPretty(JsonText), PlainText, NoContentText}


---------------------------------------------------------------------------
(* Specification of one turn: generate_response from its call to its return *)

\* function calls in one sampled reply
MaxCalls == 2

GetFileTool ==
    [name |-> "getFile", description |-> "a tool", inputSchema |-> OwnerRequired]
DeployTool ==
    [name |-> "deploy", description |-> "a tool",
     inputSchema |-> PyDict([type |-> PyStr("object"),
                             additionalProperties |-> PyBool(FALSE)])]

\* what list_tools() can do in a turn
TurnListings ==
    {[exc |-> "Connection closed", tools |-> <<>>],
     [exc |-> NoExc, tools |-> <<>>],
     [exc |-> NoExc, tools |-> <<GetFileTool>>],
     [exc |-> NoExc, tools |-> <<GetFileTool, DeployTool>>]}

\* the function calls the model can emit
TurnCalls ==
    {[name |-> "getFile", args |-> PyDict([owner |-> PyStr("x"), path |-> PyStr("")])],
     [name |-> UnknownName, args |-> PyDict(EmptyDict)],
     [name |-> "deploy", args |-> PyNone]}

CallLists == UNION {[1..n -> TurnCalls] : n \in 1..MaxCalls}

\* the in-band tags of a sampled text: "done" and "need more input"
SatisfiedMarker == "[SATISFIED]"
ClarificationMarker == "[NEED_MORE_INFO]"

\* the texts of a sampled reply: none, a text with trailing whitespace, a text
\* that ends with the tag "done", a text that ends with the tag "need more input"
SampleTexts ==
    {"", "Here you go.\n", "Done! " \o SatisfiedMarker, "Which repo? " \o ClarificationMarker}

SamplingError == "503 UNAVAILABLE"

\* lines 286-292: the declarations given to the completion API
gemini_declarations(declarations) ==
    [i \in 1..Len(declarations) |->
        [name |-> declarations[i].name,
         description |-> declarations[i].description,
         parameters |-> declarations[i].parameters]]

\* one generate_content request (lines 310, 353, 413) as the log keeps it: the
\* place of the request, the tools and the extra turns it carries, the state of
\* the session when it is made, and the reply (the exception raised, or the
\* text and the function calls of the response)
sampling_request(site, ts, turns, reply) ==
    [site |-> site, tools |-> ts, turns |-> turns, session |-> session, reply |-> reply]

TextReply(text) == [exc |-> NoExc, text |-> text, calls |-> <<>>]
FailedReply(e) == [exc |-> e, text |-> "", calls |-> <<>>]

TurnInit ==
    /\ pc = "start"
    /\ token_to_use \in BOOLEAN
    /\ session = "none"
    /\ failed_at = ""
    /\ listing = PyNone
    /\ discovery = PyNone
    /\ tool_schemas = PyNone
    /\ tools = <<>>
    /\ samples = <<>>
    /\ function_calls = <<>>
    /\ replies = <<>>
    /\ function_results = <<>>
    /\ sent = <<>>
    /\ response_text = ""
    /\ result = PyNone

\* mutant: the session is not under "async with", an exception leaves it open
McpExcept_keeps_session(e, where) ==
    LET handler == mcp_operations_except(e)
    IN  /\ failed_at' = where
        /\ session' = session
        /\ tools' = handler.tools
        /\ tool_schemas' = handler.tool_schemas
        /\ IF handler.exc # NoExc
           THEN /\ pc' = "done"
                /\ result' = generate_response(_generate_response_async_except(handler.exc))
           ELSE /\ pc' = "fallback"
                /\ result' = result

\* an exception e of step "where" leaves the "async with" blocks, which closes
\* the session, and reaches "except Exception" of line 391
McpExcept(e, where) ==
    LET handler == mcp_operations_except(e)
    IN  /\ failed_at' = where
        /\ session' = IF session = "open" THEN "closed" ELSE session
        /\ tools' = handler.tools
        /\ tool_schemas' = handler.tool_schemas
        /\ IF handler.exc # NoExc
           THEN /\ pc' = "done"
                /\ result' = generate_response(_generate_response_async_except(handler.exc))
           ELSE /\ pc' = "fallback"
                /\ result' = result

\* lines 218-227: asyncio.run cannot run the coroutine
RunFails ==
    /\ pc = "start"
    /\ pc' = "done"
    /\ result' = generate_response([exc |-> "asyncio.run() cannot be called from a running event loop",
                                    ret |-> Unprocessed("")])
    /\ UNCHANGED <<token_to_use, session, failed_at, listing, discovery, tool_schemas, tools,
                   samples, function_calls, replies, function_results, sent, response_text,
                   not_t_vars>>

\* lines 236-257
Start ==
    /\ pc = "start"
    /\ pc' = IF token_to_use THEN "connect" ELSE "fallback"
    /\ UNCHANGED <<token_to_use, session, failed_at, listing, discovery, tool_schemas, tools,
                   samples, function_calls, replies, function_results, sent, response_text,
                   result, not_t_vars>>

\* lines 261-269: the provider process starts and the session is entered
ConnectOk ==
    /\ pc = "connect"
    /\ session' = "open"
    /\ pc' = "initialize"
    /\ UNCHANGED <<token_to_use, failed_at, listing, discovery, tool_schemas, tools,
                   samples, function_calls, replies, function_results, sent, response_text,
                   result, not_t_vars>>

\* lines 261-269: the provider process cannot be started or connected to
ConnectFails ==
    /\ pc = "connect"
    /\ McpExcept("npx.cmd not found", "connect")
    /\ UNCHANGED <<token_to_use, listing, discovery,
                   samples, function_calls, replies, function_results, sent, response_text,
                   not_t_vars>>

\* line 270
InitializeOk ==
    /\ pc = "initialize"
    /\ pc' = "discover"
    /\ UNCHANGED <<token_to_use, session, failed_at, listing, discovery, tool_schemas, tools,
                   samples, function_calls, replies, function_results, sent, response_text,
                   result, not_t_vars>>

\* line 270: session.initialize() fails
InitializeFails ==
    /\ pc = "initialize"
    /\ McpExcept("initialize failed", "initialize")
    /\ UNCHANGED <<token_to_use, listing, discovery,
                   samples, function_calls, replies, function_results, sent, response_text,
                   not_t_vars>>

\* lines 276-295: tool discovery, whatever list_tools() does
Discover ==
    /\ pc = "discover"
    /\ \E listed \in TurnListings :
        LET found == _get_mcp_tools(listed)
        IN  /\ listing' = listed
            /\ discovery' = found
            /\ IF found.exc # NoExc
               THEN McpExcept(found.exc, "discover")
               ELSE /\ tool_schemas' = tool_schemas_of(found.ret)
                    /\ tools' = gemini_declarations(found.ret)
                    /\ pc' = "sample"
                    /\ UNCHANGED <<session, failed_at, result>>
    /\ UNCHANGED <<token_to_use, samples, function_calls, replies, function_results, sent,
                   response_text, not_t_vars>>

\* mutant: the text of the reply is looked at before its function calls, a
\* reply with a text ends the turn
SampleFunctionCalls_text_first ==
    /\ pc = "sample"
    /\ Len(tools) > 0
    /\ \E calls \in CallLists, text \in SampleTexts :
        /\ function_calls' = calls
        /\ samples' = Append(samples,
                             sampling_request("first", tools, <<>>,
                                              [exc |-> NoExc, text |-> text, calls |-> calls]))
        /\ IF text # ""
           THEN pc' = "return" /\ response_text' = Strip(text)
           ELSE pc' = "execute" /\ response_text' = response_text
    /\ UNCHANGED <<token_to_use, session, failed_at, listing, discovery, tool_schemas, tools,
                   replies, function_results, sent, result, not_t_vars>>

\* lines 298-325, 328: the sampled reply holds function calls (only a request
\* that declares tools gets any); its text is not looked at
SampleFunctionCalls ==
    /\ pc = "sample"
    /\ Len(tools) > 0
    /\ \E calls \in CallLists, text \in SampleTexts :
        /\ function_calls' = calls
        /\ samples' = Append(samples,
                             sampling_request("first", tools, <<>>,
                                              [exc |-> NoExc, text |-> text, calls |-> calls]))
        /\ pc' = "execute"
    /\ UNCHANGED <<token_to_use, session, failed_at, listing, discovery, tool_schemas, tools,
                   replies, function_results, sent, response_text, result, not_t_vars>>

\* lines 298-325, 374-385: the sampled reply holds no function call
SampleText ==
    /\ pc = "sample"
    /\ \E text \in SampleTexts :
        /\ samples' = Append(samples, sampling_request("first", tools, <<>>, TextReply(text)))
        /\ response_text' = IF text # "" THEN Strip(text) ELSE ApologyText
        /\ pc' = "return"
    /\ UNCHANGED <<token_to_use, session, failed_at, listing, discovery, tool_schemas, tools,
                   function_calls, replies, function_results, sent, result, not_t_vars>>

\* lines 310-320: generate_content raises, or its response has a candidate
\* without content
SampleFails ==
    /\ pc = "sample"
    /\ \E e \in {SamplingError, "'NoneType' object has no attribute 'parts'"} :
        /\ samples' = Append(samples, sampling_request("first", tools, <<>>, FailedReply(e)))
        /\ McpExcept(e, "sample")
    /\ UNCHANGED <<token_to_use, listing, discovery,
                   function_calls, replies, function_results, sent, response_text,
                   not_t_vars>>

\* lines 334-341, 370-372: the next function call is executed
ExecuteCall ==
    /\ pc = "execute"
    /\ Len(function_results) < Len(function_calls)
    /\ \E reply \in Replies :
        LET function_call == function_calls[Len(function_results) + 1]
            outcome == _execute_function_call(function_call, reply, tool_schemas)
        IN  /\ replies' = Append(replies, reply)
            /\ sent' = sent \o outcome.sent
            /\ IF outcome.exc # NoExc
               THEN /\ response_text' = function_error_text(function_calls, outcome.exc)
                    /\ pc' = "return"
                    /\ UNCHANGED function_results
               ELSE /\ function_results' =
                        Append(function_results,
                               function_result_entry(function_call, outcome.ret))
                    /\ UNCHANGED <<pc, response_text>>
    /\ UNCHANGED <<token_to_use, session, failed_at, listing, discovery, tool_schemas, tools,
                   samples, function_calls, result, not_t_vars>>

\* lines 343-368, 381-385: the follow-up sample over the function results
FollowUp ==
    /\ pc = "execute"
    /\ Len(function_results) = Len(function_calls)
    /\ \E reply \in {[exc |-> SamplingError, text |-> ""]}
                        \cup {[exc |-> NoExc, text |-> t] : t \in SampleTexts} :
        /\ samples' = Append(samples,
                             sampling_request("follow_up", <<>>,
                                              follow_up_turns(function_calls, function_results),
                                              [exc |-> reply.exc, text |-> reply.text,
                                               calls |-> <<>>]))
        /\ response_text' = follow_up_text(reply, function_results)
        /\ pc' = "return"
    /\ UNCHANGED <<token_to_use, session, failed_at, listing, discovery, tool_schemas, tools,
                   function_calls, replies, function_results, sent, result, not_t_vars>>

\* mutant: the response is returned without leaving an "async with" block
ReturnOk_leaks ==
    /\ pc = "return"
    /\ result' = generate_response([exc |-> NoExc, ret |-> PostProcessed(response_text)])
    /\ pc' = "done"
    /\ UNCHANGED <<token_to_use, session, failed_at, listing, discovery, tool_schemas, tools,
                   samples, function_calls, replies, function_results, sent, response_text,
                   not_t_vars>>

\* line 389: the response is returned through the "async with" blocks, which
\* close the session
ReturnOk ==
    /\ pc = "return"
    /\ session' = "closed"
    /\ result' = generate_response([exc |-> NoExc, ret |-> PostProcessed(response_text)])
    /\ pc' = "done"
    /\ UNCHANGED <<token_to_use, failed_at, listing, discovery, tool_schemas, tools,
                   samples, function_calls, replies, function_results, sent, response_text,
                   not_t_vars>>

\* line 389: closing the session raises
ReturnCloseFails ==
    /\ pc = "return"
    /\ McpExcept("error closing the session", "close")
    /\ UNCHANGED <<token_to_use, listing, discovery,
                   samples, function_calls, replies, function_results, sent, response_text,
                   not_t_vars>>

\* lines 397-436: the response without MCP tools
FallbackText ==
    /\ pc = "fallback"
    /\ \E text \in SampleTexts :
        /\ samples' = Append(samples, sampling_request("fallback", tools, <<>>, TextReply(text)))
        /\ response_text' = IF text # "" THEN Strip(text) ELSE response_text
        /\ result' = generate_response(
                        [exc |-> NoExc,
                         ret |-> IF text # "" THEN PostProcessed(Strip(text))
                                 ELSE Unprocessed(ApologyText)])
        /\ pc' = "done"
    /\ UNCHANGED <<token_to_use, session, failed_at, listing, discovery, tool_schemas, tools,
                   function_calls, replies, function_results, sent, not_t_vars>>

\* mutant: a failed fallback request is made again
FallbackFails_retries ==
    /\ pc = "fallback"
    /\ samples' = Append(samples,
                         sampling_request("fallback", tools, <<>>, FailedReply(SamplingError)))
    /\ UNCHANGED <<pc, token_to_use, session, failed_at, listing, discovery, tool_schemas,
                   tools, function_calls, replies, function_results, sent, response_text,
                   result, not_t_vars>>

\* lines 413-417, 438-441: generate_content raises in the fallback
FallbackFails ==
    /\ pc = "fallback"
    /\ samples' = Append(samples,
                         sampling_request("fallback", tools, <<>>, FailedReply(SamplingError)))
    /\ result' = generate_response(_generate_response_async_except(SamplingError))
    /\ pc' = "done"
    /\ UNCHANGED <<token_to_use, session, failed_at, listing, discovery, tool_schemas, tools,
                   function_calls, replies, function_results, sent, response_text,
                   not_t_vars>>

Init == TurnInit /\ FilterIdle /\ CleanIdle /\ ExecIdle /\ PostIdle /\ FormatIdle /\ AppIdle

Next ==
    \/ RunFails
    \/ Start
    \/ ConnectOk
    \/ ConnectFails
    \/ InitializeOk
    \/ InitializeFails
    \/ Discover
    \/ SampleFunctionCalls
    \/ SampleText
    \/ SampleFails
    \/ ExecuteCall
    \/ FollowUp
    \/ ReturnCloseFails
    \/ ReturnOk
    \/ FallbackFails
    \/ FallbackText

Spec == Init /\ [][Next]_vars

\* the steps the code takes by itself: entering the turn, starting the
\* provider process, leaving the "async with" blocks
OwnSteps ==
    \/ RunFails
    \/ Start
    \/ ConnectOk
    \/ ConnectFails
    \/ ReturnCloseFails
    \/ ReturnOk

\* a turn whose own steps are taken when they can be. The other steps end an
\* await on the provider (session.initialize, list_tools, call_tool) or on the
\* completion API (generate_content): the code sets no timeout on them, so
\* nothing makes them happen when the other side stays silent
SpecLive == Init /\ [][Next]_vars /\ WF_vars(OwnSteps)


---------------------------------------------------------------------------
(* Claims about one turn *)

\* the function calls whose arguments are a mapping: the ones that get as far
\* as the provider
RECURSIVE Dispatchable(_)
Dispatchable(calls) ==
    IF Len(calls) = 0 THEN <<>>
    ELSE (IF Head(calls).args.py = "dict" THEN <<Head(calls).name>> ELSE <<>>)
            \o Dispatchable(Tail(calls))

NamesOf(calls) == [i \in 1..Len(calls) |-> calls[i].name]

HasPrefix(text, prefix) ==
    /\ Len(text) >= Len(prefix)
    /\ SubSeq(text, 1, Len(prefix)) = prefix

\* C5: a failed dispatch does not abort the other function calls: once the
\* Executing step is over, every call of the sampled reply was processed and
\* dispatched, the failed ones included, and the text fed back to the model
\* holds one result per call, in order (the error text for a failed call).
C5_FailureDoesNotAbortOthers ==
    (pc \in {"return", "fallback", "done"} /\ Len(function_calls) > 0) =>
        /\ Len(function_results) = Len(function_calls)
        /\ Len(replies) = Len(function_calls)
        /\ NamesOf(sent) = Dispatchable(function_calls)
        /\ \A i \in 1..Len(function_calls) :
            /\ HasPrefix(function_results[i], function_calls[i].name \o ": ")
            /\ (replies[i].exc # NoExc /\ function_calls[i].args.py = "dict") =>
                    function_results[i] =
                        function_calls[i].name \o ": " \o ErrorPrefix \o replies[i].exc
        /\ \E j \in 1..Len(samples) :
            /\ samples[j].site = "follow_up"
            /\ samples[j].turns[2].text = "Function results: " \o JoinLines(function_results)

C5_Witness ==
    /\ pc = "done"
    /\ Len(function_calls) = 2
    /\ function_calls[1].name = "getFile"
    /\ function_calls[2].name = "getFile"
    /\ replies[1].exc = "tool failed"
    /\ replies[2] = [exc |-> NoExc, content |-> <<[has_text |-> TRUE, text |-> PlainText]>>]
    /\ function_results =
            <<"getFile: Error executing function: tool failed", "getFile: created">>
    /\ Len(sent) = 2

\* C7: _get_mcp_tools never raises: when list_tools() fails it returns an
\* empty sequence of declarations, and the turn goes on inside the session.
C7_DiscoveryNeverRaises ==
    (listing # PyNone /\ listing.exc # NoExc) =>
        /\ discovery = [exc |-> NoExc, ret |-> <<>>]
        /\ failed_at # "discover"
        /\ tools = <<>>

C7_Witness ==
    /\ listing # PyNone
    /\ listing.exc = "Connection closed"
    /\ discovery = [exc |-> NoExc, ret |-> <<>>]
    /\ pc = "sample"
    /\ session = "open"

ResponseTexts == [text : STRING, formatted : BOOLEAN]

\* C8: when the provider session cannot be started, connected to or
\* initialized, the turn goes on as with zero tools: the completion API is
\* sampled without tool declarations and the turn returns a response text.
C8_ProviderFailureMeansNoTools ==
    failed_at \in {"connect", "initialize"} =>
        /\ pc \in {"fallback", "done"}
        /\ tools = <<>> /\ tool_schemas = PyNone
        /\ Len(function_calls) = 0
        /\ pc = "done" =>
            /\ Len(samples) = 1
            /\ samples[1].site = "fallback"
            /\ samples[1].tools = <<>>
            /\ samples[1].turns = <<>>
            /\ result.exc = NoExc
            /\ result.ret \in ResponseTexts

C8_Witness ==
    /\ pc = "done"
    /\ failed_at = "initialize"
    /\ session = "closed"
    /\ Len(samples) = 1
    /\ result = [exc |-> NoExc, ret |-> PostProcessed("Here you go.")]

\* C9: whatever fails (provider, tool, sampling), generate_response ends by
\* returning one response text and raises nothing; no step before the return
\* leaves the turn stuck.
C9_AlwaysReturnsText ==
    /\ pc = "done" =>
        /\ result.exc = NoExc
        /\ result.ret \in ResponseTexts
    /\ pc # "done" => ENABLED Next

\* a turn in which a tool call, the follow-up sample, the closing of the
\* session and the fallback sample all failed
C9_Witness ==
    /\ pc = "done"
    /\ Len(replies) > 0 /\ replies[1].exc # NoExc
    /\ failed_at = "close"
    /\ Len(samples) = 3
    /\ response_text = SummaryText(function_results)
    /\ result.exc = NoExc
    /\ result.ret = _generate_response_async_except(SamplingError).ret

\* the iteration budget of a turn named by the specification (default 5); the
\* code has no such parameter
max_iterations == 5

\* C12: the number of sampling requests made to the completion API in one turn
\* never exceeds max_iterations, whatever the replies and the failures are,
\* a failure to close the session included.
C12_SamplingRequestsBounded ==
    Len(samples) <= max_iterations

\* a turn of three requests: the first, the follow-up after the tool calls, and
\* the fallback after the session failed to close
C12_Witness ==
    /\ pc = "done"
    /\ failed_at = "close"
    /\ Len(samples) = 3
    /\ samples[1].site = "first"
    /\ samples[2].site = "follow_up"
    /\ samples[3].site = "fallback"

\* tag occurs in text
Contains(text, tag) ==
    \E i \in 1..(Len(text) - Len(tag) + 1) : SubSeq(text, i, i + Len(tag) - 1) = tag

HasMarker(text) ==
    Contains(text, SatisfiedMarker) \/ Contains(text, ClarificationMarker)

\* C13: when the first reply has no function call and the text
\* "Done! [SATISFIED]", the turn stops after that request and returns "Done!";
\* no returned text ever holds a marker tag.
C13_SatisfiedMarkerStripped ==
    pc = "done" =>
        /\ ~HasMarker(result.ret.text)
        /\ (failed_at = "" /\ Len(samples) >= 1
                /\ samples[1].reply = TextReply("Done! " \o SatisfiedMarker)) =>
            /\ Len(samples) = 1
            /\ result.ret.text = "Done!"

\* every request of the turn was answered by a text with the tag "need more
\* input" and no function call
EveryReplyAsksClarification ==
    /\ Len(samples) >= 1
    /\ \A j \in 1..Len(samples) :
        /\ samples[j].reply.exc = NoExc
        /\ samples[j].reply.calls = <<>>
        /\ Contains(samples[j].reply.text, ClarificationMarker)

\* C14: when every reply has the clarification tag and no function call, the
\* turn ends only after exactly max_iterations requests, with the generic
\* apology; the clarification text is not returned.
C14_ClarificationExhausts ==
    (pc = "done" /\ EveryReplyAsksClarification) =>
        /\ Len(samples) = max_iterations
        /\ result.ret.text = ApologyText

\* the first reply holds function calls and a text with a marker tag
FirstReplyHasCallsAndMarker ==
    /\ Len(samples) >= 1
    /\ samples[1].reply.exc = NoExc
    /\ samples[1].reply.calls # <<>>
    /\ HasMarker(samples[1].reply.text)

\* C15: function calls take precedence over a marker: a reply with both does
\* not end the turn; its calls are executed first, and the turn ends only on a
\* later request, whose reply decides the response.
C15_FunctionCallsBeforeMarkers ==
    FirstReplyHasCallsAndMarker =>
        /\ function_calls = samples[1].reply.calls
        /\ pc \in {"execute", "return", "fallback", "done"}
        /\ Len(samples) = 1 => pc = "execute"
        /\ pc # "execute" =>
            /\ Len(function_results) = Len(function_calls)
            /\ Len(samples) >= 2
            /\ samples[2].site = "follow_up"
            /\ failed_at = "" =>
                response_text = follow_up_text(samples[2].reply, function_results)

C15_Witness ==
    /\ pc = "done"
    /\ failed_at = ""
    /\ FirstReplyHasCallsAndMarker
    /\ samples[1].reply.text = "Done! " \o SatisfiedMarker
    /\ Len(sent) >= 1
    /\ Len(samples) = 2
    /\ samples[2].reply.text = "Here you go.\n"
    /\ result.ret = PostProcessed("Here you go.")

\* C16: a reply with no function call and no text is a failed sample: the
\* turn samples again while iterations remain, and ends with the generic
\* apology only when the budget of max_iterations requests is spent.
C16_EmptySampleRetried ==
    (pc = "done" /\ failed_at = "" /\ Len(samples) >= 1
        /\ samples[Len(samples)].site # "follow_up"
        /\ samples[Len(samples)].reply = TextReply("")) =>
            Len(samples) = max_iterations

\* C17: on every way out of a turn (a returned response, an exception of the
\* provider, of a tool call, of a sampling request or of the closing itself)
\* the session opened in the turn is released when the response is returned.
C17_NoSessionLeak ==
    pc = "done" => session # "open"

\* a turn that opened a session, called a tool through it and returned
C17_Witness ==
    /\ pc = "done"
    /\ failed_at = ""
    /\ session = "closed"
    /\ Len(sent) >= 1
    /\ result.ret.formatted

---------------------------------------------------------------------------
(* truncate_message on bounded texts *)

MaxLen == 30
MaxLimit == 28

\* the text of n characters whose characters are "a", but for the paragraph
\* breaks that start at the offsets b1 and b2 (-1: no break); a break that
\* starts at the last offset is cut to one newline
RECURSIVE TextFrom(_, _, _, _)
TextFrom(o, n, b1, b2) ==
    IF o >= n THEN ""
    ELSE (IF (b1 >= 0 /\ o \in {b1, b1 + 1}) \/ (b2 >= 0 /\ o \in {b2, b2 + 1})
          THEN "\n" ELSE "a") \o TextFrom(o + 1, n, b1, b2)

Texts ==
    {TextFrom(0, n, b[1], b[2]) :
        n \in 0..MaxLen, b \in {c \in (-1..MaxLen) \X (-1..MaxLen) : c[1] <= c[2]}}

\* text repeated n times
RECURSIVE Rep(_, _)
Rep(text, n) ==
    IF n = 0 THEN ""
    ELSE IF n % 2 = 1 THEN text \o Rep(text, n - 1)
    ELSE LET half == Rep(text, n \div 2) IN half \o half

\* a text of 2000 characters with a paragraph break at offset 1400
ScenarioText == Rep("a", 1400) \o ParagraphBreak \o Rep("b", 598)

TruncateInit ==
    /\ p_pc = "ready"
    /\ p_text \in Texts \cup {ScenarioText}
    /\ p_max_length \in (0..MaxLimit) \cup {DefaultMaxLength}
    /\ p_result = ""

TruncateCall ==
    /\ p_pc = "ready"
    /\ p_result' = truncate_message(p_text, p_max_length)
    /\ p_pc' = "done"
    /\ UNCHANGED <<p_text, p_max_length, not_p_vars>>

SpecTruncateInit == TruncateInit /\ FilterIdle /\ CleanIdle /\ ExecIdle /\ TurnIdle /\ FormatIdle /\ AppIdle

SpecTruncateNext == TruncateCall

SpecTruncate == SpecTruncateInit /\ [][SpecTruncateNext]_vars

\* C19: for every text and every max_length, the text truncate_message
\* returns is, marker included, at most max_length characters long.
C19_TruncationBound ==
    p_pc = "done" => Len(p_result) <= p_max_length

\* the end of the slice text[:max_length - 3] of line 42, the hard limit
HardLimit ==
    IF p_max_length - 3 >= 0
    THEN (IF p_max_length - 3 < Len(p_text) THEN p_max_length - 3 ELSE Len(p_text))
    ELSE (IF Len(p_text) + p_max_length - 3 > 0 THEN Len(p_text) + p_max_length - 3 ELSE 0)

\* the offsets of the paragraph breaks that lie whole before the hard limit
\* and beyond 80% of max_length
BreaksInTrailingPart ==
    {i \in 0..(HardLimit - 2) :
        /\ 5 * i > 4 * p_max_length
        /\ SubSeq(p_text, i + 1, i + 2) = ParagraphBreak}

C20_SmallWitness ==
    /\ p_pc = "done"
    /\ p_max_length = 28
    /\ p_text = TextFrom(0, 30, 10, 23)
    /\ p_result = SubSeq(p_text, 1, 23) \o TruncationMarker

---------------------------------------------------------------------------
(* Post-processing on bounded texts *)

MaxPieces == 6
MaxPostLimit == 4

\* what the texts are made of: a fence, a newline, a language, a line of code
Pieces == {Fence, "\n", "py", "x"}

RECURSIVE Concat(_)
Concat(pieces) ==
    IF pieces = <<>> THEN "" ELSE pieces[1] \o Concat(Tail(pieces))

\* a text with two equal blocks
TwoEqualBlocks ==
    "x\n" \o Fence \o "\nx\n" \o Fence \o "\nx\n" \o Fence \o "\nx\n" \o Fence

FormatTexts ==
    {Concat(pieces) : pieces \in UNION {[1..n -> Pieces] : n \in 0..MaxPieces}}
        \cup {TwoEqualBlocks}

FormatInit ==
    /\ w_pc = "ready"
    /\ w_text \in FormatTexts
    /\ w_max_length \in (0..MaxPostLimit) \cup {DefaultMaxLength}
    /\ w_code = ""
    /\ w_once = ""
    /\ w_twice = ""

\* ai_service.py lines 382-385: the response is formatted, then truncated
PostProcess ==
    /\ w_pc = "ready"
    /\ w_code' = format_code_for_whatsapp(w_text)
    /\ w_once' = truncate_message(format_code_for_whatsapp(w_text), w_max_length)
    /\ w_pc' = "once"
    /\ UNCHANGED <<w_text, w_max_length, w_twice, not_w_vars>>

\* the same, applied to the text it returned
PostProcessAgain ==
    /\ w_pc = "once"
    /\ w_twice' = post_process(w_once, w_max_length)
    /\ w_pc' = "twice"
    /\ UNCHANGED <<w_text, w_max_length, w_code, w_once, not_w_vars>>

SpecFormatInit ==
    FormatInit /\ FilterIdle /\ CleanIdle /\ ExecIdle /\ TurnIdle /\ PostIdle /\ AppIdle

SpecFormatNext ==
    \/ PostProcess
    \/ PostProcessAgain

SpecFormat == SpecFormatInit /\ [][SpecFormatNext]_vars

\* the text holds no fenced code block, with or without a language
NoFencedBlock(text) ==
    /\ findall_language_blocks(text, 0) = <<>>
    /\ findall_generic_blocks(text, 0) = <<>>

\* C21: on a text without fenced code block, post-processing (formatting, then
\* truncation with the same max_length) applied to its own result changes
\* nothing.
C21_PostProcessingIdempotent ==
    (w_pc = "twice" /\ NoFencedBlock(w_text)) => w_twice = w_once

\* every block of text from offset at on, a language block or a generic one,
\* given one label; the rest as it is
RECURSIVE label_blocks(_, _)
label_blocks(text, at) ==
    LET fence == find_from(text, Fence, at)
    IN  IF fence = -1 THEN Slice(text, at, Len(text))
        ELSE LET language == match_language_block(text, fence)
                 generic == match_generic_block(text, fence)
             IN  Slice(text, at, fence) \o
                 (IF language.ok
                  THEN language_replacement(language.lang, language.code)
                           \o label_blocks(text, language.end)
                  ELSE IF generic.ok
                  THEN generic_replacement(generic.code) \o label_blocks(text, generic.end)
                  ELSE Slice(text, fence, fence + 1) \o label_blocks(text, fence + 1))

\* C22: in what format_code_for_whatsapp returns, every fenced code block of
\* the text is prefixed by exactly one label, the one of its language when it
\* has one and the generic one otherwise, and its code is kept as it is.
C22_OneLabelPerBlock ==
    w_pc # "ready" => w_code = label_blocks(w_text, 0)

\* C23: every external call of a turn is boxed with a timeout, so the turn
\* returns a response in the end even when the provider or the completion API
\* never answers.
C23_TurnEventuallyReturns ==
    <>(pc = "done")

---------------------------------------------------------------------------
(* Specification of the chat history: the requests of one user, served by   *)
(* the two handlers, which may overlap, and the clearing of the history.    *)
(* A request without message or sender is answered before the history is   *)
(* touched (app.py lines 46-48, 93-100): it changes nothing of this state.  *)

MaxTurns == 11

\* how many turns may fail
MaxFailures == 1

\* how many operations on the user may begin while a turn is being served
MaxOverlaps == 1

\* the user whose history is followed
Sender == "whatsapp:+15550001"

Digits == "0123456789"

\* str(n)
RECURSIVE NumText(_)
NumText(n) ==
    IF n < 10 THEN SubSeq(Digits, n + 1, n + 1)
    ELSE NumText(n \div 10) \o SubSeq(Digits, (n % 10) + 1, (n % 10) + 1)

\* the n-th message of the user
MessageText(n) == "message " \o NumText(n)

\* what generate_response returns: a response, or its apology when the turn
\* failed
AppResponses == {"Here you go.", SorryText}

AppInit ==
    /\ user_sessions = <<>>
    /\ a_pc = [h \in Handlers |-> "idle"]
    /\ a_message = [h \in Handlers |-> ""]
    /\ a_seen = [h \in Handlers |-> <<>>]
    /\ a_conversation = [h \in Handlers |-> <<>>]
    /\ a_response = [h \in Handlers |-> ""]
    /\ a_count = 0
    /\ a_log = <<>>
    /\ a_failures = 0
    /\ a_overlap = 0
    /\ a_last = [op |-> "none", response |-> ""]

\* a turn of the user is being served by a handler other than h
OtherBusy(h) == \E g \in Handlers \ {h} : a_pc[g] # "idle"

\* app.py lines 41-59 and 91-111: a message comes in, the session exists from
\* then on, the message is appended to the history
ReceiveMessage ==
    \E h \in Handlers :
        /\ a_pc[h] = "idle"
        /\ a_count < MaxTurns
        /\ OtherBusy(h) => a_overlap < MaxOverlaps
        /\ LET entry == [role |-> "user", content |-> MessageText(a_count + 1)]
           IN  /\ user_sessions' =
                    append_to_history(ensure_user_session(user_sessions, Sender), Sender, entry)
               /\ a_message' = [a_message EXCEPT ![h] = entry.content]
               /\ a_log' = Append(a_log, entry)
        /\ a_count' = a_count + 1
        /\ a_overlap' = (IF OtherBusy(h) THEN a_overlap + 1 ELSE a_overlap)
        /\ a_pc' = [a_pc EXCEPT ![h] = "call"]
        /\ UNCHANGED <<a_seen, a_conversation, a_response, a_failures, a_last,
                       not_a_vars>>

\* app.py lines 62-65 and 114-117: generate_response is given the message and
\* the history as it is by then, and returns a text
CallGenerateResponse ==
    \E h \in Handlers, response \in AppResponses :
        /\ a_pc[h] = "call"
        /\ response = SorryText => a_failures < MaxFailures
        /\ a_failures' = (IF response = SorryText THEN a_failures + 1 ELSE a_failures)
        /\ LET chat_history == user_sessions[Sender].chat_history
           IN  /\ a_seen' = [a_seen EXCEPT ![h] = chat_history]
               /\ a_conversation' =
                    [a_conversation EXCEPT
                        ![h] = conversation_messages(a_message[h], chat_history, SystemPrompt)]
        /\ a_response' = [a_response EXCEPT ![h] = response]
        /\ a_pc' = [a_pc EXCEPT ![h] = "respond"]
        /\ UNCHANGED <<user_sessions, a_message, a_count, a_log, a_overlap, a_last,
                       not_a_vars>>

\* app.py lines 68-71 and 120-123
AppendResponse ==
    \E h \in Handlers :
        /\ a_pc[h] = "respond"
        /\ LET entry == [role |-> "assistant", content |-> a_response[h]]
           IN  /\ user_sessions' = append_to_history(user_sessions, Sender, entry)
               /\ a_log' = Append(a_log, entry)
        /\ a_pc' = [a_pc EXCEPT ![h] = "limit"]
        /\ UNCHANGED <<a_message, a_seen, a_conversation, a_response, a_count, a_failures,
                       a_overlap, a_last, not_a_vars>>

\* app.py lines 77-78 and 129-137: the response goes out, the turn is over
TurnOver(h) ==
    /\ a_last' = [op |-> "turn", response |-> a_response[h]]
    /\ a_pc' = [a_pc EXCEPT ![h] = "idle"]
    /\ a_message' = [a_message EXCEPT ![h] = ""]
    /\ a_seen' = [a_seen EXCEPT ![h] = <<>>]
    /\ a_conversation' = [a_conversation EXCEPT ![h] = <<>>]
    /\ a_response' = [a_response EXCEPT ![h] = ""]

\* app.py lines 74 and 126, the test holding: the history is longer than the
\* limit.  The handlers run in the threads of the server (app.py line 211)
\* and nothing locks the sessions: another request of the user may act
\* between the test, which calls len, and the assignment.
LimitHistory ==
    \E h \in Handlers :
        /\ a_pc[h] = "limit"
        /\ Len(user_sessions[Sender].chat_history) > HistoryLimit
        /\ a_pc' = [a_pc EXCEPT ![h] = "store"]
        /\ UNCHANGED <<user_sessions, a_message, a_seen, a_conversation, a_response, a_count,
                       a_log, a_failures, a_overlap, a_last, not_a_vars>>

\* app.py lines 75 and 127: the history becomes its last entries.  The
\* statement calls nothing, the interpreter runs it without giving up its
\* lock: it is one step.
StoreHistory ==
    \E h \in Handlers :
        /\ a_pc[h] = "store"
        /\ user_sessions' =
            [user_sessions EXCEPT ![Sender].chat_history = limit_chat_history(@)]
        /\ TurnOver(h)
        /\ UNCHANGED <<a_count, a_log, a_failures, a_overlap, not_a_vars>>

\* app.py lines 74 and 126, the test failing: the history stays as it is
KeepHistory ==
    \E h \in Handlers :
        /\ a_pc[h] = "limit"
        /\ ~(Len(user_sessions[Sender].chat_history) > HistoryLimit)
        /\ TurnOver(h)
        /\ UNCHANGED <<user_sessions, a_count, a_log, a_failures, a_overlap, not_a_vars>>

\* app.py lines 159-171: clear_chat_history of a user who has a session
ClearHistory ==
    /\ Sender \in DOMAIN user_sessions
    /\ (\E g \in Handlers : a_pc[g] # "idle") => a_overlap < MaxOverlaps
    /\ user_sessions' =
        [user_sessions EXCEPT
            ![Sender] = [github_token |-> @.github_token, chat_history |-> <<>>]]
    /\ a_log' = <<>>
    /\ a_overlap' = (IF \E g \in Handlers : a_pc[g] # "idle" THEN a_overlap + 1 ELSE a_overlap)
    /\ a_last' = [op |-> "clear", response |-> ""]
    /\ UNCHANGED <<a_pc, a_message, a_seen, a_conversation, a_response, a_count, a_failures,
                   not_a_vars>>

SpecAppInit ==
    AppInit /\ FilterIdle /\ CleanIdle /\ ExecIdle /\ TurnIdle /\ PostIdle /\ FormatIdle

SpecAppNext ==
    \/ ReceiveMessage
    \/ CallGenerateResponse
    \/ AppendResponse
    \/ LimitHistory
    \/ StoreHistory
    \/ KeepHistory
    \/ ClearHistory

SpecApp == SpecAppInit /\ [][SpecAppNext]_vars

\* no request is being served
Quiescent == \A h \in Handlers : a_pc[h] = "idle"

StoredHistory ==
    IF Sender \in DOMAIN user_sessions THEN user_sessions[Sender].chat_history ELSE <<>>

\* C24: once the turns of a user are completed, the stored history holds at
\* most 20 entries: all the entries appended when they are 20 or fewer, the
\* 20 most recent ones in their order when they are more.
C24_HistoryWindow ==
    Quiescent =>
        /\ Len(StoredHistory) = (IF Len(a_log) > 20 THEN 20 ELSE Len(a_log))
        /\ \A i \in 1..Len(StoredHistory) :
            StoredHistory[i] = a_log[Len(a_log) - Len(StoredHistory) + i]

\* eleven turns: the first message and its response have left the history
C24_Witness ==
    /\ Quiescent
    /\ a_overlap = 0
    /\ Len(a_log) = 22
    /\ Len(StoredHistory) = 20
    /\ StoredHistory[1] = [role |-> "user", content |-> MessageText(2)]
    /\ StoredHistory[20].role = "assistant"

\* C25: after a completed turn, when no two operations on the user overlapped,
\* the stored history has an even length, alternates user entry and assistant
\* entry from a user entry on, and ends with the response of that turn, the
\* apology of a failed turn included, cut to the last 20 or not.
C25_HistoryShape ==
    (Quiescent /\ a_overlap = 0 /\ a_last.op = "turn") =>
        /\ Len(StoredHistory) >= 2
        /\ Len(StoredHistory) % 2 = 0
        /\ \A i \in 1..Len(StoredHistory) :
            StoredHistory[i].role = (IF i % 2 = 1 THEN "user" ELSE "assistant")
        /\ StoredHistory[Len(StoredHistory)].content = a_last.response

\* a failed turn whose apology is stored, in a history that has been cut
C25_Witness ==
    /\ Quiescent
    /\ a_overlap = 0
    /\ a_last = [op |-> "turn", response |-> SorryText]
    /\ Len(a_log) = 22
    /\ Len(StoredHistory) = 20
    /\ StoredHistory[20] = [role |-> "assistant", content |-> SorryText]

\* the history a handler handed over ends with the message it is serving
HistoryEndsWithMessage(h) ==
    /\ a_seen[h] # <<>>
    /\ a_seen[h][Len(a_seen[h])] = [role |-> "user", content |-> a_message[h]]

---------------------------------------------------------------------------
(* Claims about the function results of a turn *)

\* the requests made without MCP tools over the original conversation
FallbackSamples == {i \in 1..Len(samples) : samples[i].site = "fallback"}

\* C26: in a turn that dispatched at least one function call to the provider,
\* the text returned comes from the function results: the last request is the
\* follow-up sample over the results and the text returned is the one made
\* from its reply and the results; no request without tools over the original
\* conversation is made, whatever fails afterwards.
C26_ResultsNotDiscarded ==
    (pc = "done" /\ Len(sent) >= 1) =>
        /\ FallbackSamples = {}
        /\ samples[Len(samples)].site = "follow_up"
        /\ result = generate_response(
                        [exc |-> NoExc,
                         ret |-> PostProcessed(
                                    follow_up_text(samples[Len(samples)].reply,
                                                   function_results))])

\* the follow-up requests of the turn
FollowUpSamples == {i \in 1..Len(samples) : samples[i].site = "follow_up"}

\* C27: the function calls of the sampled reply are executed one by one in
\* the order of the reply, each once: after n of them, n replies of the
\* provider session were used, the calls sent to the provider are the first n
\* calls that carry arguments, in order and with their names, and the results
\* are n entries "<name>: <result>" in order; the session is the open session
\* of the turn while they are executed. The follow-up request comes when all
\* are executed and carries the synthetic model turn, then the user turn made
\* of all the entries in order.
C27_DispatchOrder ==
    /\ pc = "execute" => session = "open"
    /\ Len(replies) <= Len(function_calls)
    /\ Len(function_results) = Len(replies)
    /\ NamesOf(sent) = Dispatchable(SubSeq(function_calls, 1, Len(replies)))
    /\ \A i \in 1..Len(function_results) :
        HasPrefix(function_results[i], function_calls[i].name \o ": ")
    /\ \A i \in FollowUpSamples :
        /\ Len(function_results) = Len(function_calls)
        /\ Len(samples[i].turns) = 2
        /\ samples[i].turns[1].role = "model"
        /\ samples[i].turns[2] =
            [role |-> "user", text |-> "Function results: " \o JoinLines(function_results)]
        /\ samples[i].session = "open"

\* two calls of different names, both sent to the provider, then the follow-up
C27_Witness ==
    /\ pc = "done"
    /\ NamesOf(function_calls) = <<"getFile", UnknownName>>
    /\ NamesOf(sent) = <<"getFile", UnknownName>>
    /\ FollowUpSamples # {}
    /\ function_results[1] # function_results[2]

---------------------------------------------------------------------------
(* The Argument Filter on a schema that declares nothing *)

\* a non-empty mapping with neither a 'required' list nor 'properties'
BareSchema(schema) ==
    /\ schema.py = "dict"
    /\ DOMAIN schema.d # {}
    /\ "required" \notin DOMAIN schema.d
    /\ "properties" \notin DOMAIN schema.d

\* C29: on a non-empty schema that declares neither 'required' nor
\* 'properties' the filter returns the empty mapping whatever the arguments;
\* on every schema its output holds only keys of the input, each with the
\* value of the input, and the input is what it was before the call.
C29_BareSchemaFiltersAll ==
    /\ [](f_pc = "done" =>
            /\ BareSchema(f_schema) => f_result = EmptyDict
            /\ DOMAIN f_result \subseteq DOMAIN f_arguments
            /\ \A key \in DOMAIN f_result : f_result[key] = f_arguments[key])
    /\ [][f_arguments' = f_arguments]_vars

\* three arguments, one of them set, and a schema that holds a type only
C29_Witness ==
    /\ f_pc = "done"
    /\ f_schema = PyDict([type |-> PyStr("object")])
    /\ BareSchema(f_schema)
    /\ Cardinality(DOMAIN f_arguments) = 3
    /\ "owner" \in DOMAIN f_arguments /\ f_arguments["owner"] = PyStr("x")
    /\ f_result = EmptyDict

====
